---- MODULE Spec2Model ----
(***************************************************************************)
(* Model of the dividends tool (src/dividends/src/main.rs): the driver     *)
(* main, the two record parsers load_revolut_dividends (FormatB) and       *)
(* load_t212_dividends (FormatA), convert_value, company_address and       *)
(* write_output.                                                           *)
(*                                                                         *)
(* Strings are sequences of tokens.  A token is either one character the   *)
(* code inspects (a digit of an amount, '.', ',', ';', '-', ' ', 'T', '$', *)
(* a line feed) or a run of characters the code never inspects (a name,    *)
(* the year of a date, the text of a header cell).                         *)
(* Option values: None is the empty tuple, Some(x) the one-element tuple.  *)
(* An f32 is modelled as an exact fraction <<numerator, denominator>>; the *)
(* amounts and rates of the model are dyadic with a few bits, for which    *)
(* f32 arithmetic is exact.                                                *)
(***************************************************************************)
EXTENDS Integers, Sequences, FiniteSets, TLC

VARIABLES
    pc,                 \* position of main
    err,                \* why the run aborted ("" while it has not)
    args,               \* env::args() after the program name
    tax_id,             \* the line read from stdin
    places,             \* places.json as loaded (None before)
    rates,              \* rates.xml as loaded (None before)
    revolut_info,       \* revolut.json as loaded by the FormatB parser
    parser,             \* the parser main called last ("" before the first)
    returned,           \* the parsers that have returned Ok, in order
    headers,            \* the running parser's column name -> index map
    first_len,          \* the csv reader's field count, set by the header row
    records,            \* the records the running parser's reader has yielded
    local,              \* the running parser's own dividends vector
    revolut_dividends,  \* main's revolut_dividends
    t212_dividends,     \* main's t212_dividends
    dividends,          \* main's dividends vector
    writes,             \* number of invocations of write_output
    output,             \* result.csv: None until created, then Some(lines)
    cv_args,            \* arguments of the latest stand-alone convert_value call
    cv_result,          \* its result
    cv_row              \* and what a FormatA record with these cells results in

vars == <<pc, err, args, tax_id, places, rates, revolut_info, parser, returned,
          headers, first_len, records, local, revolut_dividends, t212_dividends,
          dividends, writes, output, cv_args, cv_result, cv_row>>

-----------------------------------------------------------------------------
(* Option *)

None == <<>>

Some(x) == <<x>>

IsSome(o) == Len(o) = 1

-----------------------------------------------------------------------------
(* String helpers of the Rust standard library, as the code uses them *)

Digits == {"0", "1", "2", "3", "4", "5", "6", "7", "8", "9"}

DigitVal(c) ==
    CASE c = "0" -> 0 [] c = "1" -> 1 [] c = "2" -> 2 [] c = "3" -> 3
      [] c = "4" -> 4 [] c = "5" -> 5 [] c = "6" -> 6 [] c = "7" -> 7
      [] c = "8" -> 8 [] c = "9" -> 9

\* positions of the token c in s
Positions(s, c) == {i \in 1..Len(s) : s[i] = c}

Min(S) == CHOOSE x \in S : \A y \in S : x <= y

\* faulty variant of replacen1: every occurrence is replaced
replacen1_all(s, from, to) ==
    [i \in 1..Len(s) |-> IF s[i] = from THEN to ELSE s[i]]

\* str::replacen(from, to, 1): only the first occurrence is replaced
replacen1(s, from, to) ==
    IF Positions(s, from) = {} THEN s
    ELSE [s EXCEPT ![Min(Positions(s, from))] = to]

\* str::replace(from, to) with a one-character replacement: every occurrence
replace(s, from, to) == [i \in 1..Len(s) |-> IF s[i] = from THEN to ELSE s[i]]

\* str::replace(from, ""): every occurrence removed
remove(s, from) == SelectSeq(s, LAMBDA c : c # from)

\* str::split(&[' ', 'T']).next(): the text before the first ' ' or 'T'.
\* Split yields at least one piece for every string, so this is always Some.
date_only(s) ==
    LET cut == {i \in 1..Len(s) : s[i] \in {" ", "T"}}
    IN  Some(IF cut = {} THEN s ELSE SubSeq(s, 1, Min(cut) - 1))

\* str::split('-').collect::<Vec<_>>(): the pieces between the '-' tokens
RECURSIVE split_dash(_)
split_dash(s) ==
    IF Positions(s, "-") = {} THEN <<s>>
    ELSE LET p == Min(Positions(s, "-"))
         IN  <<SubSeq(s, 1, p - 1)>> \o split_dash(SubSeq(s, p + 1, Len(s)))

\* .into_iter().rev().collect::<Vec<_>>()
rev(v) == [i \in 1..Len(v) |-> v[Len(v) + 1 - i]]

\* .join(".")
RECURSIVE join_dot(_)
join_dot(v) ==
    IF Len(v) = 0 THEN <<>>
    ELSE IF Len(v) = 1 THEN v[1]
    ELSE v[1] \o <<".">> \o join_dot(Tail(v))

\* str::trim() on the stdin line: surrounding white space removed
RECURSIVE trim(_)
trim(s) ==
    IF Len(s) = 0 THEN s
    ELSE IF s[1] \in {" ", "\n"} THEN trim(Tail(s))
    ELSE IF s[Len(s)] \in {" ", "\n"} THEN trim(SubSeq(s, 1, Len(s) - 1))
    ELSE s

-----------------------------------------------------------------------------
(* f32: parse, multiply, format *)

RECURSIVE DigitsToInt(_)
DigitsToInt(s) ==
    IF Len(s) = 0 THEN 0
    ELSE 10 * DigitsToInt(SubSeq(s, 1, Len(s) - 1)) + DigitVal(s[Len(s)])

RECURSIVE Pow10(_)
Pow10(n) == IF n = 0 THEN 1 ELSE 10 * Pow10(n - 1)

\* str::parse::<f32>() on unsigned decimal text: digits with at most one '.',
\* at least one digit; anything else is an Err (None after .ok())
parse_f32(s) ==
    LET dots == Positions(s, ".")
        ds   == remove(s, ".")
    IN  IF /\ \A i \in 1..Len(s) : s[i] \in Digits \cup {"."}
           /\ Cardinality(dots) <= 1
           /\ Len(ds) >= 1
        THEN Some(<<DigitsToInt(ds),
                    IF dots = {} THEN 1 ELSE Pow10(Len(s) - Min(dots))>>)
        ELSE None

mul(x, y) == <<x[1] * y[1], x[2] * y[2]>>

RECURSIVE IntToDigits(_)
IntToDigits(n) ==
    IF n < 10 THEN <<CHOOSE c \in Digits : DigitVal(c) = n>>
    ELSE IntToDigits(n \div 10) \o <<CHOOSE c \in Digits : DigitVal(c) = n % 10>>

\* format!("{:.2}", x): x rounded to hundredths (a tie goes to the even digit),
\* printed with exactly two digits after the '.'
format_2(x) ==
    LET h  == x[1] * 100
        q  == h \div x[2]
        r  == h % x[2]
        up == 2 * r > x[2] \/ (2 * r = x[2] /\ q % 2 = 1)
        n  == IF up THEN q + 1 ELSE q
    IN  IntToDigits(n \div 100) \o <<".">>
          \o IntToDigits((n % 100) \div 10) \o IntToDigits(n % 10)

-----------------------------------------------------------------------------
(* Currency codes *)

EUR == <<"EUR">>

GBX == <<"GBX">>

GBP == <<"GBP">>

USD == <<"USD">>

-----------------------------------------------------------------------------
(* convert_value *)

\* faulty variant of rate_code: the lookup keeps the code it was given
rate_code_same(currency) == currency

\* the rate lookup is made under "GBP" for a "GBX" amount
rate_code(currency) == IF currency = GBX THEN GBP ELSE currency

\* a "GBX" amount is multiplied by 100.0
scaled(tax, currency) == IF currency = GBX THEN mul(tax, <<100, 1>>) ELSE tax

\* faulty variant of rate_of: a day without an entry falls back to some day
\* that has one
rate_of_fallback(day, code, rts) ==
    LET use == IF day \in DOMAIN rts \/ DOMAIN rts = {} THEN day
               ELSE CHOOSE e \in DOMAIN rts : TRUE
    IN  IF use \notin DOMAIN rts THEN None
        ELSE IF code \notin DOMAIN rts[use] THEN None
        ELSE Some(rts[use][code])

\* rates.get(date), then date_rate.get(currency): an exact match of the day,
\* then of the code; None when either is absent
rate_of(day, code, rts) ==
    IF day \notin DOMAIN rts THEN None
    ELSE IF code \notin DOMAIN rts[day] THEN None
    ELSE Some(rts[day][code])

convert_value(date, tax, currency, rts) ==
    IF currency = EUR THEN Some(replacen1(tax, ".", ","))
    ELSE IF ~IsSome(parse_f32(tax)) THEN None
    ELSE LET t == scaled(parse_f32(tax)[1], currency)
             c == rate_code(currency)
             d == date_only(date)
         IN  IF ~IsSome(d) THEN None
             ELSE IF ~IsSome(rate_of(d[1], c, rts)) THEN None
             ELSE Some(replacen1(format_2(mul(t, rate_of(d[1], c, rts)[1])), ".", ","))

-----------------------------------------------------------------------------
(* Bounds of the model *)

\* most records in the FormatB (Revolut) export
MaxRevolutRows == 2

\* most records in the FormatA (Trading212) export
MaxT212Rows == 2

-----------------------------------------------------------------------------
(* Reference data: rates.xml, places.json, revolut.json *)

D1 == <<"2023", "-", "05", "-", "09">>

D2 == <<"2023", "-", "05", "-", "10">>

\* a day rates.xml has no entry for
D3 == <<"2023", "-", "05", "-", "13">>

\* rates.xml after load_rates: date -> currency code -> f32
RatesData ==
    D1 :> (USD :> <<5, 4>> @@ GBP :> <<3, 4>>)
    @@ D2 :> (USD :> <<5, 4>> @@ GBX :> <<2, 1>>)

TA == <<"AAA">>

TB == <<"BBB">>

\* a ticker of places.json that revolut.json lacks
TC == <<"CCC">>

\* a ticker neither file knows
TX == <<"XXX">>

\* places.json after load_places: ticker -> (address, country)
PlacesData ==
    TA :> <<(<<"1 Alpha Road">>), (<<"US">>)>>
    @@ TB :> <<(<<"2 Beta Street">>), (<<"GB">>)>>
    @@ TC :> <<(<<"3 Gamma Lane">>), (<<"DE">>)>>

\* revolut.json after load_revolut_info: ticker -> (isin, name)
RevolutInfoData ==
    TA :> <<(<<"US0000000001">>), (<<"Alpha Inc">>)>>
    @@ TB :> <<(<<"GB0000000002">>), (<<"Beta Plc">>)>>

\* the line typed on stdin
StdinLine == <<"12345678", "\n">>

-----------------------------------------------------------------------------
(* The export files the parsers may be given *)

ColAction == <<"Action">>
ColTime == <<"Time">>
ColISIN == <<"ISIN">>
ColName == <<"Name">>
ColTotal == <<"Total">>
ColWTax == <<"Withholding tax">>
ColWTaxCur == <<"Currency (Withholding tax)">>
ColTicker == <<"Ticker">>
ColType == <<"Type">>
ColDate == <<"Date">>
ColTotalAmount == <<"Total Amount">>

DividendOrdinary == <<"Dividend (Ordinary)">>

DIVIDEND == <<"DIVIDEND">>

T212Header ==
    <<ColAction, ColTime, ColISIN, ColName, ColTotal, ColWTax, ColWTaxCur, ColTicker>>

\* header rows of the FormatA exports: complete, or without the Ticker column
T212HeaderRows == {T212Header, SubSeq(T212Header, 1, 7)}

Clock == <<" ", "10:00:00">>

T212Good ==
    { <<DividendOrdinary, D1 \o Clock, <<"US0000000001">>, <<"Alpha Inc">>,
        <<"1", "0", ".", "5", "0">>, <<"1", ".", "5", "0">>, EUR, TA>>,
      <<DividendOrdinary, D2 \o Clock, <<"GB0000000002">>, <<"Beta Plc">>,
        <<"4", ".", "2", "5">>, <<"2", ".", "5">>, USD, TB>>,
      <<DividendOrdinary, D1 \o Clock, <<"GB0000000002">>, <<"Beta Plc">>,
        <<"3", ".", "0", "0">>, <<"0", ".", "5">>, GBX, TB>> }

T212Other ==
    { \* not a dividend
      <<(<<"Market buy">>), D1 \o Clock, <<"US0000000001">>, <<"Alpha Inc">>,
        <<"9", "9", ".", "0", "0">>, <<>>, <<>>, TA>>,
      \* ticker unknown to places.json
      <<DividendOrdinary, D1 \o Clock, <<"FR0000000009">>, <<"Xi SA">>,
        <<"7", ".", "0", "0">>, <<"0", ".", "7", "0">>, EUR, TX>>,
      \* no rates for the day, foreign currency
      <<DividendOrdinary, D3 \o Clock, <<"US0000000001">>, <<"Alpha Inc">>,
        <<"6", ".", "0", "0">>, <<"1", ".", "5">>, USD, TA>>,
      \* no rates for the day, EUR; the time cell has no '-'
      <<DividendOrdinary, <<"20230513">>, <<"US0000000001">>, <<"Alpha Inc">>,
        <<"5", ".", "0", "0">>, <<"0", ".", "2", "5">>, EUR, TA>>,
      \* empty time cell, EUR
      <<DividendOrdinary, <<>>, <<"GB0000000002">>, <<"Beta Plc">>,
        <<"8", ".", "0", "0">>, <<"0", ".", "7", "5">>, EUR, TB>>,
      \* withholding tax is not a number
      <<DividendOrdinary, D1 \o Clock, <<"US0000000001">>, <<"Alpha Inc">>,
        <<"6", ".", "0", "0">>, <<"n/a">>, USD, TA>>,
      \* the record ends before its Ticker cell
      <<DividendOrdinary, D1 \o Clock, <<"US0000000001">>, <<"Alpha Inc">>,
        <<"1", "0", ".", "5", "0">>, <<"1", ".", "5", "0">>, EUR>> }

\* the records a FormatA export may hold
T212Rows == T212Good \cup T212Other

RevolutHeader == <<ColDate, ColType, ColTotalAmount, ColTicker>>

\* header rows of the FormatB exports: complete, or without the Ticker column
RevolutHeaderRows == {RevolutHeader, SubSeq(RevolutHeader, 1, 3)}

Zulu == <<"T", "10:00:00Z">>

RevolutGood ==
    { <<D1 \o Zulu, DIVIDEND, <<"$", "4", ".", "0", "0">>, TA>>,
      <<D2 \o Zulu, DIVIDEND, <<"$", "2", ".", "5">>, TB>> }

RevolutOther ==
    { \* not a dividend
      <<D1 \o Zulu, <<"BUY">>, <<"$", "9", "9", ".", "0", "0">>, TA>>,
      \* ticker unknown to places.json
      <<D1 \o Zulu, DIVIDEND, <<"$", "7", ".", "0", "0">>, TX>>,
      \* no rates for the day
      <<D3 \o Zulu, DIVIDEND, <<"$", "6", ".", "0", "0">>, TA>>,
      \* ticker unknown to revolut.json
      <<D1 \o Zulu, DIVIDEND, <<"$", "3", ".", "0", "0">>, TC>>,
      \* the record ends before its Ticker cell
      <<D1 \o Zulu, DIVIDEND, <<"$", "4", ".", "0", "0">>>> }

\* the records a FormatB export may hold
RevolutRows == RevolutGood \cup RevolutOther

-----------------------------------------------------------------------------
(* The csv reader *)

\* reader.headers()?.iter().enumerate().map(|(i, v)| (v, i)).collect():
\* column name -> position (counted from 1 here); of two cells with one name
\* the later one stays
header_map(row) ==
    [c \in {row[i] : i \in 1..Len(row)} |->
        CHOOSE i \in 1..Len(row) :
            row[i] = c /\ \A j \in 1..Len(row) : row[j] = c => j <= i]

\* reader.records(): Reader::from_reader builds a reader that is not flexible,
\* so a record whose field count differs from the header row's is an Err
next_record(rec, n) == IF Len(rec) = n THEN Some(rec) ELSE None

\* record.get(i)
get(record, i) == IF i <= Len(record) THEN Some(record[i]) ELSE None

\* record.get(headers[col]) for each column of cols in turn: "panic" when
\* headers has no such key (HashMap indexing), "continue" at the first cell
\* the record lacks (the let-else arms), "ok" when every cell is there
RECURSIVE cells(_, _, _)
cells(cols, record, hdrs) ==
    IF Len(cols) = 0 THEN "ok"
    ELSE IF cols[1] \notin DOMAIN hdrs THEN "panic"
    ELSE IF ~IsSome(get(record, hdrs[cols[1]])) THEN "continue"
    ELSE cells(Tail(cols), record, hdrs)

\* faulty variant of company_address: an unknown ticker gets an empty place
company_address_default(company_name, plcs) ==
    IF company_name \in DOMAIN plcs THEN Some(plcs[company_name])
    ELSE Some(<<(<<>>), (<<>>)>>)

company_address(company_name, plcs) ==
    IF company_name \in DOMAIN plcs THEN Some(plcs[company_name]) ELSE None

Dividend(date, payer_id, name, address, country, amount, tax) ==
    [date |-> date, payer_id |-> payer_id, name |-> name, address |-> address,
     country |-> country, amount |-> amount, tax |-> tax]

-----------------------------------------------------------------------------
(* One iteration of a parser's loop over reader.records().  The result is    *)
(* <<"err">> (record? returns the Err), <<"panic">>, <<"continue">> or       *)
(* <<"push", d>>.                                                            *)

T212Required ==
    <<ColTime, ColISIN, ColName, ColTotal, ColWTax, ColWTaxCur, ColTicker>>

t212_record(rec, n, hdrs, plcs, rts) ==
    IF ~IsSome(next_record(rec, n)) THEN <<"err">>
    ELSE IF ColAction \notin DOMAIN hdrs THEN <<"panic">>
    ELSE IF get(rec, hdrs[ColAction]) # Some(DividendOrdinary) THEN <<"continue">>
    ELSE IF cells(T212Required, rec, hdrs) # "ok"
         THEN <<cells(T212Required, rec, hdrs)>>
    ELSE LET date   == rec[hdrs[ColTime]]
             isin   == rec[hdrs[ColISIN]]
             name   == rec[hdrs[ColName]]
             value  == rec[hdrs[ColTotal]]
             wtax   == rec[hdrs[ColWTax]]
             wcur   == rec[hdrs[ColWTaxCur]]
             ticker == rec[hdrs[ColTicker]]
             place  == company_address(ticker, plcs)
             tax    == convert_value(date, wtax, wcur, rts)
         IN  IF ~IsSome(place) THEN <<"continue">>
             ELSE IF ~IsSome(tax) THEN <<"continue">>
             ELSE <<"push", Dividend(date, isin, name, place[1][1], place[1][2],
                                     value, tax[1])>>

\* the tax cell load_revolut_dividends gives every Dividend
revolut_tax == <<"0", ".", "0", "0">>

revolut_record(rec, n, hdrs, plcs, rts, info) ==
    IF ~IsSome(next_record(rec, n)) THEN <<"err">>
    ELSE IF ColType \notin DOMAIN hdrs THEN <<"panic">>
    ELSE IF get(rec, hdrs[ColType]) # Some(DIVIDEND) THEN <<"continue">>
    ELSE IF cells(<<ColDate, ColTicker>>, rec, hdrs) # "ok"
         THEN <<cells(<<ColDate, ColTicker>>, rec, hdrs)>>
    ELSE LET date   == rec[hdrs[ColDate]]
             ticker == rec[hdrs[ColTicker]]
             place  == company_address(ticker, plcs)
         IN  IF ~IsSome(place) THEN <<"continue">>
             ELSE IF cells(<<ColTotalAmount>>, rec, hdrs) # "ok"
                  THEN <<cells(<<ColTotalAmount>>, rec, hdrs)>>
             ELSE LET amount == convert_value(date,
                                    remove(rec[hdrs[ColTotalAmount]], "$"), USD, rts)
                  IN  IF ~IsSome(amount) THEN <<"continue">>
                      ELSE IF ticker \notin DOMAIN info THEN <<"continue">>
                      ELSE <<"push", Dividend(date, info[ticker][1], info[ticker][2],
                                              place[1][1], place[1][2],
                                              amount[1], revolut_tax)>>

-----------------------------------------------------------------------------
(* write_output *)

\* the text of the three writeln! calls before the loop, without the "\n"
\* each of them ends with (the diacritics of the column titles are left out)
FormLine ==
    <<"#FormCode", ";", "Version", ";", "TaxPayerID", ";", "TaxPayerType", ";",
      "DocumentWorkflowID", ";", ";", ";", ";", ";", ";">>

MetaLine(id) ==
    <<"DOH-DIV", ";", "3", ".", "9", ";">> \o id
        \o <<";", "FO", ";", "O", ";", ";", ";", ";", ";", ";">>

ColumnLine ==
    <<"#datum prejema dividende", ";", "davcna stevilka izplacevalca dividend", ";",
      "identifikacijska  stevilka izplacevalca dividend", ";",
      "naziv izplacevalca dividend", ";", "naslov izplacevalca dividend", ";",
      "drzava izplacevalca dividend", ";", "vrsta dividende", ";",
      "znesek dividend", ";", "tuji davek", ";", "drzava vira", ";",
      "uveljavljam oprostitev po mednarodni pogodbi">>

\* writeln!(output, "<text>\n"): the text's line, then the empty line that the
\* "\n" of the format string and the line feed of writeln! enclose
writeln_nl(text) == <<text, <<>>>>

\* the date cell of a Dividend's line
date_cell(date) == join_dot(rev(split_dash(date)))

\* one iteration of the loop: None when the let-else arm is taken (continue),
\* else the line written
dividend_line(d) ==
    IF ~IsSome(date_only(d.date)) THEN None
    ELSE Some(date_cell(date_only(d.date)[1]) \o <<";", ";">> \o d.payer_id
              \o <<";">> \o d.name \o <<";">> \o d.address \o <<";">> \o d.country
              \o <<";", "1", ";">> \o replace(d.amount, ".", ",") \o <<";">> \o d.tax
              \o <<";">> \o d.country \o <<";">>)

RECURSIVE dividend_lines(_)
dividend_lines(ds) ==
    IF Len(ds) = 0 THEN <<>>
    ELSE dividend_line(ds[1]) \o dividend_lines(Tail(ds))

\* the lines of result.csv after a write_output that returns Ok
write_output(id, ds) ==
    writeln_nl(FormLine) \o writeln_nl(MetaLine(id)) \o writeln_nl(ColumnLine)
        \o dividend_lines(ds)

-----------------------------------------------------------------------------
(* main *)

Init ==
    /\ pc = "read_tax_id"
    /\ err = ""
    /\ args \in {<<>>, <<"revolut.csv">>, <<"revolut.csv", "t212.csv">>}
    /\ tax_id = <<>>
    /\ places = None
    /\ rates = None
    /\ revolut_info = None
    /\ parser = ""
    /\ returned = <<>>
    /\ headers = <<>>
    /\ first_len = 0
    /\ records = <<>>
    /\ local = <<>>
    /\ revolut_dividends = <<>>
    /\ t212_dividends = <<>>
    /\ dividends = <<>>
    /\ writes = 0
    /\ output = None
    /\ cv_args = None
    /\ cv_result = None
    /\ cv_row = None

\* an Err leaves main through `?`, or a panic unwinds it: the process ends
abort(reason) ==
    /\ pc' = "failed"
    /\ err' = reason

\* faulty variant of extend: the new elements are put in front
extend_front(v, w) == w \o v

\* Vec::extend
extend(v, w) == v \o w

\* faulty variant of after_record: the loop goes on whatever the result
after_record_ignore(r, loop) == loop

\* where main goes after a parser's loop iteration with result r
after_record(r, loop) ==
    IF r[1] \in {"err", "panic"} THEN "failed" ELSE loop

\* where main goes once load_revolut_dividends has returned Ok
after_revolut(a) == IF Len(a) >= 2 THEN "t212_open" ELSE "write"

ReadTaxId ==
    /\ pc = "read_tax_id"
    /\ \/ /\ tax_id' = StdinLine
          /\ pc' = "load_places"
          /\ err' = err
       \/ /\ abort("io")
          /\ tax_id' = tax_id
    /\ UNCHANGED <<args, places, rates, revolut_info, parser, returned,
                   headers, first_len,
                   records, local, revolut_dividends, t212_dividends, dividends,
                   writes, output, cv_args, cv_result, cv_row>>

LoadPlaces ==
    /\ pc = "load_places"
    /\ \/ /\ places' = Some(PlacesData)
          /\ pc' = "load_rates"
          /\ err' = err
       \/ /\ abort("io")
          /\ places' = places
    /\ UNCHANGED <<args, tax_id, rates, revolut_info, parser, returned,
                   headers, first_len,
                   records, local, revolut_dividends, t212_dividends, dividends,
                   writes, output, cv_args, cv_result, cv_row>>

LoadRates ==
    /\ pc = "load_rates"
    /\ \/ /\ rates' = Some(RatesData)
          /\ pc' = "revolut_open"
          /\ err' = err
       \/ /\ abort("io")
          /\ rates' = rates
    /\ UNCHANGED <<args, tax_id, places, revolut_info, parser, returned,
                   headers, first_len,
                   records, local, revolut_dividends, t212_dividends, dividends,
                   writes, output, cv_args, cv_result, cv_row>>

\* args.next().unwrap(), then load_revolut_dividends up to its loop
OpenRevolut ==
    /\ pc = "revolut_open"
    /\ \/ /\ Len(args) = 0
          /\ abort("panic")
          /\ UNCHANGED <<parser, headers, first_len, revolut_info>>
       \/ /\ Len(args) >= 1
          /\ abort("io")
          /\ parser' = "revolut"
          /\ UNCHANGED <<headers, first_len, revolut_info>>
       \/ /\ Len(args) >= 1
          /\ \E row \in RevolutHeaderRows :
                /\ headers' = header_map(row)
                /\ first_len' = Len(row)
          /\ revolut_info' = Some(RevolutInfoData)
          /\ parser' = "revolut"
          /\ pc' = "revolut_loop"
          /\ err' = err
    /\ UNCHANGED <<args, returned, tax_id, places, rates, records, local,
                   revolut_dividends,
                   t212_dividends, dividends, writes, output, cv_args, cv_result, cv_row>>

\* one iteration of `for record in reader.records()` in load_revolut_dividends
RevolutRecord ==
    /\ pc = "revolut_loop"
    /\ Len(records) < MaxRevolutRows
    /\ \E rec \in RevolutRows :
          LET r == revolut_record(rec, first_len, headers, places[1], rates[1],
                                  revolut_info[1])
          IN  /\ records' = Append(records, rec)
              /\ local' = IF r[1] = "push" THEN Append(local, r[2]) ELSE local
              /\ pc' = after_record(r, "revolut_loop")
              /\ err' = IF r[1] \in {"err", "panic"} THEN r[1] ELSE err
    /\ UNCHANGED <<args, tax_id, places, rates, revolut_info, parser,
                   returned, headers,
                   first_len, revolut_dividends, t212_dividends, dividends, writes,
                   output, cv_args, cv_result, cv_row>>

\* the reader is exhausted: Ok(dividends), and main extends its vector
RevolutReturn ==
    /\ pc = "revolut_loop"
    /\ revolut_dividends' = local
    /\ dividends' = extend(dividends, local)
    /\ pc' = after_revolut(args)
    /\ returned' = Append(returned, "revolut")
    /\ UNCHANGED <<err, args, tax_id, places, rates, revolut_info, parser,
                   headers,
                   first_len, records, local, t212_dividends, writes, output,
                   cv_args, cv_result, cv_row>>

\* load_t212_dividends up to its loop
OpenT212 ==
    /\ pc = "t212_open"
    /\ parser' = "t212"
    /\ records' = <<>>
    /\ local' = <<>>
    /\ \/ /\ abort("io")
          /\ UNCHANGED <<headers, first_len>>
       \/ /\ \E row \in T212HeaderRows :
                /\ headers' = header_map(row)
                /\ first_len' = Len(row)
          /\ pc' = "t212_loop"
          /\ err' = err
    /\ UNCHANGED <<args, returned, tax_id, places, rates, revolut_info,
                   revolut_dividends,
                   t212_dividends, dividends, writes, output, cv_args, cv_result, cv_row>>

\* one iteration of `for record in reader.records()` in load_t212_dividends
T212Record ==
    /\ pc = "t212_loop"
    /\ Len(records) < MaxT212Rows
    /\ \E rec \in T212Rows :
          LET r == t212_record(rec, first_len, headers, places[1], rates[1])
          IN  /\ records' = Append(records, rec)
              /\ local' = IF r[1] = "push" THEN Append(local, r[2]) ELSE local
              /\ pc' = after_record(r, "t212_loop")
              /\ err' = IF r[1] \in {"err", "panic"} THEN r[1] ELSE err
    /\ UNCHANGED <<args, tax_id, places, rates, revolut_info, parser,
                   returned, headers,
                   first_len, revolut_dividends, t212_dividends, dividends, writes,
                   output, cv_args, cv_result, cv_row>>

\* the reader is exhausted: Ok(dividends), and main extends its vector
T212Return ==
    /\ pc = "t212_loop"
    /\ t212_dividends' = local
    /\ dividends' = extend(dividends, local)
    /\ pc' = "write"
    /\ returned' = Append(returned, "t212")
    /\ UNCHANGED <<err, args, tax_id, places, rates, revolut_info, parser,
                   headers,
                   first_len, records, local, revolut_dividends, writes, output,
                   cv_args, cv_result, cv_row>>

\* write_output(tax_id.trim(), &dividends)?: File::create may fail, and so
\* may any writeln! after some of the lines
WriteOutput ==
    /\ pc = "write"
    /\ writes' = writes + 1
    /\ LET lines == write_output(trim(tax_id), dividends)
       IN  \/ /\ output' = Some(lines)
              /\ pc' = "done"
              /\ err' = err
           \/ /\ output' = None
              /\ abort("io")
           \/ /\ \E k \in 0..(Len(lines) - 1) : output' = Some(SubSeq(lines, 1, k))
              /\ abort("io")
    /\ UNCHANGED <<args, tax_id, places, rates, revolut_info, parser,
                   returned, headers,
                   first_len, records, local, revolut_dividends, t212_dividends,
                   dividends, cv_args, cv_result, cv_row>>

Next ==
    \/ ReadTaxId
    \/ LoadPlaces
    \/ LoadRates
    \/ OpenRevolut
    \/ RevolutRecord
    \/ RevolutReturn
    \/ OpenT212
    \/ T212Record
    \/ T212Return
    \/ WriteOutput

Spec == Init /\ [][Next]_vars

-----------------------------------------------------------------------------
(* convert_value on its own: any date, amount, currency code and rate table, *)
(* and the FormatA record that carries them                                  *)

ConvDates == {D1, D1 \o Clock, D1 \o Zulu, D2, D3, D3 \o Clock, <<>>}

ConvAmounts ==
    { <<"1", ".", "5", "0">>, <<"0", ".", "5">>, <<"2", ".", "5">>, <<"1", "2">>,
      <<"0", ".", "2", "5">>, <<"1", ".", "2", "3", "4", ".", "5", "6">>,
      <<"n/a">>, <<>> }

ConvCurrencies == {EUR, GBX, GBP, USD}

ConvRateTables ==
    { <<>>,
      RatesData,
      D1 :> (GBP :> <<3, 4>> @@ GBX :> <<2, 1>>),
      D1 :> (USD :> <<5, 4>>) @@ D3 :> (GBP :> <<1, 2>> @@ USD :> <<3, 2>>) }

ConvInit ==
    /\ Init
    /\ args = <<>>

Convert ==
    /\ cv_args = None
    /\ \E date \in ConvDates, tax \in ConvAmounts, currency \in ConvCurrencies,
          rts \in ConvRateTables :
          /\ cv_args' = Some([date |-> date, tax |-> tax, currency |-> currency,
                              rates |-> rts])
          /\ cv_result' = convert_value(date, tax, currency, rts)
          /\ cv_row' = Some(t212_record(
                 <<DividendOrdinary, date, <<"US0000000001">>, <<"Alpha Inc">>,
                   <<"1", "0", ".", "5", "0">>, tax, currency, TA>>,
                 Len(T212Header), header_map(T212Header), PlacesData, rts))
    /\ UNCHANGED <<pc, err, args, tax_id, places, rates, revolut_info, parser,
                   returned, headers, first_len, records, local, revolut_dividends,
                   t212_dividends, dividends, writes, output>>

ConvNext == Convert

SpecConv == ConvInit /\ [][ConvNext]_vars

-----------------------------------------------------------------------------
(* Vocabulary of the properties *)

\* the cells of a line: the text between its ';' tokens
RECURSIVE Fields(_)
Fields(line) ==
    IF Positions(line, ";") = {} THEN <<line>>
    ELSE LET p == Min(Positions(line, ";"))
         IN  <<SubSeq(line, 1, p - 1)>> \o Fields(SubSeq(line, p + 1, Len(line)))

\* the lines of the report that follow its column-header line, blank ones aside
Body(lines) ==
    LET at == {i \in 1..Len(lines) : lines[i] = ColumnLine}
    IN  IF at = {} THEN <<>>
        ELSE SelectSeq(SubSeq(lines, Min(at) + 1, Len(lines)), LAMBDA l : l # <<>>)

\* the report of a run that completed
Report == output[1]

Completed == pc = "done"

\* the columns the running parser requires of a dividend record
Required ==
    IF parser = "t212" THEN {ColAction} \cup {T212Required[i] : i \in 1..7}
    ELSE {ColType, ColDate, ColTicker, ColTotalAmount}

Discriminator == IF parser = "t212" THEN ColAction ELSE ColType

DividendMark == IF parser = "t212" THEN DividendOrdinary ELSE DIVIDEND

\* rec is a dividend record
IsDividendRow(rec) ==
    /\ Discriminator \in DOMAIN headers
    /\ headers[Discriminator] <= Len(rec)
    /\ rec[headers[Discriminator]] = DividendMark

\* rec has no cell for one of the required columns
LacksCell(rec) ==
    \E c \in Required : c \notin DOMAIN headers \/ headers[c] > Len(rec)

LastRecord == records[Len(records)]

-----------------------------------------------------------------------------
(* C1 *)

\* C1: a dividend record that lacks one of the required columns is skipped and
\* never aborts the run: after such a record the run has not failed with a
\* record error or a panic.
C1_RowFailureIsRecoverable ==
    (/\ parser # ""
     /\ Len(records) > 0
     /\ IsDividendRow(LastRecord)
     /\ LacksCell(LastRecord))
    => ~(pc = "failed" /\ err \in {"err", "panic"})

-----------------------------------------------------------------------------
(* C2, C5, C6: convert_value, under SpecConv *)

Called == cv_args # None

Arg == cv_args[1]

\* the day the call looks up
ArgDay == date_only(Arg.date)[1]

\* C2 as stated: for a day the rate table has no entry for, whatever the
\* amount and the currency code, convert_value yields None and the record that
\* needed the conversion is skipped without ending the run.
C2_MissingDayFailsAnyCurrency ==
    (Called /\ ArgDay \notin DOMAIN Arg.rates)
    => (cv_result = None /\ cv_row = Some(<<"continue">>))

\* C2 amended: for a day the rate table has no entry for, whatever the amount
\* and for every currency code other than "EUR", convert_value yields None and
\* the record that needed the conversion is skipped (no Dividend, no Err, no
\* panic).
C2_MissingDayFails ==
    (Called /\ ArgDay \notin DOMAIN Arg.rates /\ Arg.currency # EUR)
    => (cv_result = None /\ cv_row = Some(<<"continue">>))

\* a numeric amount in USD on a day missing from a table that has other days
C2_Witness ==
    /\ Called
    /\ ArgDay \notin DOMAIN Arg.rates
    /\ DOMAIN Arg.rates # {}
    /\ Arg.currency = USD
    /\ IsSome(parse_f32(Arg.tax))
    /\ cv_result = None
    /\ cv_row = Some(<<"continue">>)

\* C5: for the code "EUR" convert_value returns Some of the amount text with
\* its first '.' turned into ',' and every other token as it was, for every
\* date, rate table and amount text.
C5_EurPassthrough ==
    (Called /\ Arg.currency = EUR)
    => /\ IsSome(cv_result)
       /\ Len(cv_result[1]) = Len(Arg.tax)
       /\ \A i \in 1..Len(Arg.tax) :
             cv_result[1][i] =
                 IF Arg.tax[i] = "." /\ \A j \in 1..(i - 1) : Arg.tax[j] # "."
                 THEN "," ELSE Arg.tax[i]

\* an amount with two '.' on a day the table has no entry for
C5_Witness ==
    /\ Called
    /\ Arg.currency = EUR
    /\ ArgDay \notin DOMAIN Arg.rates
    /\ Cardinality(Positions(Arg.tax, ".")) = 2
    /\ IsSome(cv_result)
    /\ Cardinality(Positions(cv_result[1], ".")) = 1

\* r is digits, a ',' and exactly two digits
IsComma2(r) ==
    /\ Len(r) >= 4
    /\ r[Len(r) - 2] = ","
    /\ \A i \in 1..Len(r) : i # Len(r) - 2 => r[i] \in Digits

\* r, read in hundredths, is a nearest hundredth of the fraction x
NearestHundredth(r, x) ==
    LET v == DigitsToInt(remove(r, ","))
        e == v * x[2] - 100 * x[1]
    IN  2 * (IF e < 0 THEN 0 - e ELSE e) <= x[2]

\* C6: for a numeric amount in "GBX" on a day of the rate table, the result is
\* amount x 100 x the day's "GBP" rate with two decimals and a comma; without
\* a "GBP" rate that day the result is None, a "GBX" rate or not.
C6_GbxUsesGbp ==
    (/\ Called
     /\ Arg.currency = GBX
     /\ IsSome(parse_f32(Arg.tax))
     /\ ArgDay \in DOMAIN Arg.rates)
    => IF GBP \in DOMAIN Arg.rates[ArgDay]
       THEN /\ IsSome(cv_result)
            /\ IsComma2(cv_result[1])
            /\ NearestHundredth(cv_result[1],
                   mul(mul(parse_f32(Arg.tax)[1], <<100, 1>>),
                       Arg.rates[ArgDay][GBP]))
       ELSE cv_result = None

\* a day that has both a "GBP" and a "GBX" rate
C6_Witness ==
    /\ Called
    /\ Arg.currency = GBX
    /\ IsSome(parse_f32(Arg.tax))
    /\ ArgDay \in DOMAIN Arg.rates
    /\ {GBP, GBX} \subseteq DOMAIN Arg.rates[ArgDay]
    /\ Arg.rates[ArgDay][GBP] # Arg.rates[ArgDay][GBX]
    /\ IsSome(cv_result)

-----------------------------------------------------------------------------
(* C3, C4, C7, C9: the report, under Spec *)

\* C3: the report is the form line, the 'DOH-DIV;3.9;<taxId>;FO;O' line, the
\* column-header line and one line per Dividend, in this order and nothing
\* else; each line has 11 cells, a Dividend's being date, blank, payer_id,
\* name, address, country, 1, amount, tax, country, blank.
C3_ReportLayout ==
    Completed =>
        /\ Len(Report) = 3 + Len(dividends)
        /\ Report[1] = FormLine
        /\ Report[2] = MetaLine(trim(tax_id))
        /\ Report[3] = ColumnLine
        /\ \A i \in 1..Len(Report) : Len(Fields(Report[i])) = 11
        /\ \A i \in 1..Len(dividends) :
              LET d == dividends[i]
                  f == Fields(Report[3 + i])
              IN  /\ f[2] = <<>>
                  /\ f[3] = d.payer_id
                  /\ f[4] = d.name
                  /\ f[5] = d.address
                  /\ f[6] = d.country
                  /\ f[7] = <<"1">>
                  /\ f[8] = replace(d.amount, ".", ",")
                  /\ f[9] = d.tax
                  /\ f[10] = d.country
                  /\ f[11] = <<>>

\* C4: on every Dividend line of the report neither the amount cell nor the
\* tax cell holds a '.', whichever parser produced the Dividend.
C4_DecimalComma ==
    Completed =>
        \A i \in 1..Len(Body(Report)) :
            /\ "." \notin {Fields(Body(Report)[i])[8][k] :
                              k \in 1..Len(Fields(Body(Report)[i])[8])}
            /\ "." \notin {Fields(Body(Report)[i])[9][k] :
                              k \in 1..Len(Fields(Body(Report)[i])[9])}

\* a Dividend's line carries the Dividend's own cells
LineOf(line, d) ==
    /\ Len(Fields(line)) = 11
    /\ Fields(line)[3] = d.payer_id
    /\ Fields(line)[4] = d.name
    /\ Fields(line)[5] = d.address
    /\ Fields(line)[8] = replace(d.amount, ".", ",")
    /\ Fields(line)[9] = d.tax

\* C7: the Dividend lines of the report are those of the first parser run
\* (FormatB) in record order, then those of the second (FormatA) in record
\* order, one line each: nothing is sorted, moved or written twice.
C7_ReportOrder ==
    Completed =>
        LET ds == revolut_dividends \o t212_dividends
        IN  /\ Len(Body(Report)) = Len(ds)
            /\ \A i \in 1..Len(ds) : LineOf(Body(Report)[i], ds[i])

\* both parsers contributed, the second one two different Dividends
C7_Witness ==
    /\ Completed
    /\ Len(revolut_dividends) >= 1
    /\ Len(t212_dividends) = 2
    /\ t212_dividends[1] # t212_dividends[2]
    /\ revolut_dividends[1].payer_id # t212_dividends[1].payer_id

\* the day of d's date splits into year, month and day
WellFormedDate(d) == Len(split_dash(date_only(d.date)[1])) = 3

\* C9: a Dividend whose date does not split into year, month and day gets no
\* line while all others get theirs; the date cell of a line is the day of the
\* date as DD.MM.YYYY.
C9_MalformedDateSkipped ==
    Completed =>
        LET good == SelectSeq(dividends, WellFormedDate)
        IN  /\ Len(Body(Report)) = Len(good)
            /\ \A i \in 1..Len(good) :
                  LET p == split_dash(date_only(good[i].date)[1])
                  IN  /\ LineOf(Body(Report)[i], good[i])
                      /\ Fields(Body(Report)[i])[1] =
                             p[3] \o <<".">> \o p[2] \o <<".">> \o p[1]

-----------------------------------------------------------------------------
(* C8: what a parser returns, under Spec *)

\* the parser main called last has returned Ok, records being its export
Returned == Len(returned) > 0 /\ returned[Len(returned)] = parser

Cell(rec, c) == rec[headers[c]]

\* rec is a dividend record whose ticker the directories know and whose
\* amount converts
KeptRow(rec) ==
    /\ IsDividendRow(rec)
    /\ ~LacksCell(rec)
    /\ Cell(rec, ColTicker) \in DOMAIN places[1]
    /\ IF parser = "t212"
       THEN IsSome(convert_value(Cell(rec, ColTime), Cell(rec, ColWTax),
                                 Cell(rec, ColWTaxCur), rates[1]))
       ELSE /\ IsSome(convert_value(Cell(rec, ColDate),
                          remove(Cell(rec, ColTotalAmount), "$"), USD, rates[1]))
            /\ Cell(rec, ColTicker) \in DOMAIN revolut_info[1]

\* d is the Dividend of the record rec
DividendOf(d, rec) ==
    /\ d.address = places[1][Cell(rec, ColTicker)][1]
    /\ d.country = places[1][Cell(rec, ColTicker)][2]
    /\ IF parser = "t212"
       THEN /\ d.date = Cell(rec, ColTime)
            /\ d.payer_id = Cell(rec, ColISIN)
            /\ d.name = Cell(rec, ColName)
            /\ d.amount = Cell(rec, ColTotal)
       ELSE /\ d.date = Cell(rec, ColDate)
            /\ d.payer_id = revolut_info[1][Cell(rec, ColTicker)][1]
            /\ d.name = revolut_info[1][Cell(rec, ColTicker)][2]

\* C8: the Dividends a parser returns are those of the dividend records whose
\* ticker is in PlaceDirectory (for FormatB also in BrokerAliasDirectory) and
\* whose amount converts, in record order; a record with an unknown ticker adds
\* nothing and leaves the records before and after it alone.
C8_ReturnedAreKeptRows ==
    Returned =>
        LET kept == SelectSeq(records, KeptRow)
            got  == IF parser = "t212" THEN t212_dividends ELSE revolut_dividends
        IN  /\ Len(got) = Len(kept)
            /\ \A i \in 1..Len(kept) : DividendOf(got[i], kept[i])

\* a dividend record with an unknown ticker before a record that is kept
C8_Witness ==
    /\ Returned
    /\ Len(records) = 2
    /\ IsDividendRow(records[1])
    /\ ~LacksCell(records[1])
    /\ Cell(records[1], ColTicker) \notin DOMAIN places[1]
    /\ KeptRow(records[2])
    /\ Len(IF parser = "t212" THEN t212_dividends ELSE revolut_dividends) = 1

-----------------------------------------------------------------------------
(* C10: the stages of main, under Spec *)

\* the parsers main has to run for its arguments
ToRun == IF Len(args) >= 2 THEN <<"revolut", "t212">> ELSE <<"revolut">>

\* C10: write_output is invoked at most once, only with the reference data
\* loaded and every parser returned, and exactly once in a run that completes;
\* a run that ends on an error while loading or parsing has not invoked it and
\* has no report.
C10_StagesInOrder ==
    /\ writes <= 1
    /\ writes = 1 =>
          /\ IsSome(places)
          /\ IsSome(rates)
          /\ returned = ToRun
          /\ pc \in {"done", "failed"}
    /\ Completed => (writes = 1 /\ err = "" /\ IsSome(output))
    /\ err \in {"err", "panic"} => (writes = 0 /\ output = None)
    /\ (pc = "failed" /\ returned # ToRun) => (writes = 0 /\ output = None)

\* the second parser failed on a record after the first had returned Dividends
C10_Witness ==
    /\ pc = "failed"
    /\ err = "err"
    /\ parser = "t212"
    /\ Len(revolut_dividends) >= 1
    /\ writes = 0
    /\ output = None

====
